---- MODULE Spec2Model ----
(***************************************************************************)
(* A model of the generational slot map of src/src/vector.rs (Vector<T>),  *)
(* with its Handle (src/src/handle.rs) and Metadata (src/src/metadata.rs). *)
(* Logical IDs and dense positions are 0-based as in the source; TLA+      *)
(* sequences are 1-based, so every access goes through At / Put / Swap.    *)
(***************************************************************************)
EXTENDS Integers, Sequences, FiniteSets, TLC

\* ------------------------------------------------------------- bounds
\* The largest number of logical IDs the indirection table may hold.
MaxIds == 3
\* The cap on a validity_id (usize in the source; no wraparound below it).
MaxGen == 3
\* The cap on the number of insertions of one run.
MaxPush == 4
\* The largest number of handles the caller keeps.
MaxHandles == 2

\* ------------------------------------------------------------- state
VARIABLES
    data,       \* Vector::data: the dense storage
    metadata,   \* Vector::metadata: one Metadata per slot
    indices,    \* Vector::indices: logical ID -> dense position
    handles,    \* the handles the store has issued, each with the object it was issued for
    objs,       \* history: logical ID -> the live object stored under it
    freed,      \* history: the free logical IDs, oldest batch first
    erased,     \* history: the handles given to erase_by_handle while valid
    cleared,    \* history: the handles issued before some clear()
    pushes,     \* history: completed insertions
    erases,     \* history: completed erasures
    swept,      \* history: objects removed by clear()
    reissue,    \* history: the insertions since the last clear(), while no erase followed it
    last        \* the last mutating operation and the logical ID it took or returned

vars == <<data, metadata, indices, handles, objs, freed, erased, cleared,
          pushes, erases, swept, reissue, last>>

\* ------------------------------------------------------------- vectors
At(s, i) == s[i + 1]
Put(s, i, x) == [s EXCEPT ![i + 1] = x]
\* slice::swap(i, j)
Swap(s, i, j) == [s EXCEPT ![i + 1] = s[j + 1], ![j + 1] = s[i + 1]]
\* Vec::pop
Pop(s) == SubSeq(s, 1, Len(s) - 1)
InRange(s) == 0 .. (Len(s) - 1)

\* Metadata::new
Metadata_new(reverse_id, validity_id) ==
    [reverse_id |-> reverse_id, validity_id |-> validity_id]

\* Handle::new
Handle_new(id, validity_id) == [id |-> id, validity_id |-> validity_id]

\* Handle::default
Handle_default == Handle_new(0, 0)

\* Handle::get_id
get_id(handle) == handle.id

\* metadata[i].validity_id += 1
BumpAt(md, i) ==
    Put(md, i, Metadata_new(At(md, i).reverse_id, At(md, i).validity_id + 1))

\* The store as one value: the three fields of Vector<T>.
Self == [data |-> data, metadata |-> metadata, indices |-> indices]

\* Vector::default
Vector_default == [data |-> <<>>, metadata |-> <<>>, indices |-> <<>>]

\* Option<T> and a panic (an out-of-bounds index).
None == [tag |-> "None"]
Some(x) == [tag |-> "Some", val |-> x]
Panic == [tag |-> "Panic"]

\* Vector::len
len(self) == Len(self.data)

\* Vector::is_empty
is_empty(self) == self.data = <<>>

\* Vector::get_data_index
get_data_index(self, id) == At(self.indices, id)

\* The outcome of a mutating call: the store it leaves, what it returns, and
\* whether it panicked (an index out of bounds, usize underflow).
Done(self, ret) == [self |-> self, ret |-> ret, panic |-> FALSE]
Failed(self) == [self |-> self, ret |-> -1, panic |-> TRUE]

\* Mutant of get_free_id: a reused slot is initialised like a new one
\* (validity_id 0) instead of having its validity_id incremented.
get_free_id_reset(self) ==
    IF Len(self.metadata) > Len(self.data)
    THEN Done([self EXCEPT !.metadata =
                   Put(@, Len(self.data),
                       Metadata_new(At(@, Len(self.data)).reverse_id, 0))],
              At(self.metadata, Len(self.data)).reverse_id)
    ELSE LET new_id == Len(self.data)
         IN  Done([self EXCEPT !.metadata = Append(@, Metadata_new(new_id, 0)),
                               !.indices = Append(@, new_id)],
                  new_id)

\* Mutant of get_free_id: the free slots are never looked at, a new slot is
\* always created.
get_free_id_fresh(self) ==
    LET new_id == Len(self.data)
    IN  Done([self EXCEPT !.metadata = Append(@, Metadata_new(new_id, 0)),
                          !.indices = Append(@, new_id)],
             new_id)

\* Mutant of get_free_id: the free slot taken is the one at the end of the
\* metadata vector instead of the one at the live boundary.
get_free_id_oldest(self) ==
    IF Len(self.metadata) > Len(self.data)
    THEN Done([self EXCEPT !.metadata = BumpAt(@, Len(self.metadata) - 1)],
              At(self.metadata, Len(self.metadata) - 1).reverse_id)
    ELSE LET new_id == Len(self.data)
         IN  Done([self EXCEPT !.metadata = Append(@, Metadata_new(new_id, 0)),
                               !.indices = Append(@, new_id)],
                  new_id)

\* Mutant of get_free_id: the metadata of a new slot is Metadata::default()
\* instead of Metadata::new(new_id, 0).
get_free_id_default(self) ==
    IF Len(self.metadata) > Len(self.data)
    THEN Done([self EXCEPT !.metadata = BumpAt(@, Len(self.data))],
              At(self.metadata, Len(self.data)).reverse_id)
    ELSE LET new_id == Len(self.data)
         IN  Done([self EXCEPT !.metadata = Append(@, Metadata_new(0, 0)),
                               !.indices = Append(@, new_id)],
                  new_id)

\* Vector::get_free_id
get_free_id(self) ==
    IF Len(self.metadata) > Len(self.data)
    THEN Done([self EXCEPT !.metadata = BumpAt(@, Len(self.data))],
              At(self.metadata, Len(self.data)).reverse_id)
    ELSE LET new_id == Len(self.data)
         IN  Done([self EXCEPT !.metadata = Append(@, Metadata_new(new_id, 0)),
                               !.indices = Append(@, new_id)],
                  new_id)

\* Vector::get_free_slot
get_free_slot(self) ==
    LET r == get_free_id(self)
    IN  IF r.ret \notin InRange(r.self.indices)
        THEN Failed(r.self)
        ELSE Done([r.self EXCEPT !.indices = Put(@, r.ret, Len(r.self.data))], r.ret)

\* Vector::push
push(self, object) ==
    LET r == get_free_slot(self)
    IN  IF r.panic
        THEN r
        ELSE Done([r.self EXCEPT !.data = Append(@, object)], r.ret)

\* The erasure of a live id with one statement of erase_by_id left out or
\* not: bump (line 39), the swap of indices (line 42), the pop (line 43).
erase_variant(self, id, bump, swap_indices, pop) ==
    IF id \notin InRange(self.indices) THEN Failed(self)
    ELSE IF At(self.indices, id) \notin InRange(self.data) THEN Failed(self)
    ELSE
    LET data_id == At(self.indices, id)
        last_data_id == Len(self.data) - 1
        last_id == At(self.metadata, last_data_id).reverse_id
        md == IF bump THEN BumpAt(self.metadata, data_id) ELSE self.metadata
    IN  IF last_id \notin InRange(self.indices) THEN Failed(self)
        ELSE Done([data |-> IF pop
                            THEN Pop(Swap(self.data, data_id, last_data_id))
                            ELSE Swap(self.data, data_id, last_data_id),
                   metadata |-> Swap(md, data_id, last_data_id),
                   indices |-> IF swap_indices
                               THEN Swap(self.indices, id, last_id)
                               ELSE self.indices],
                  id)

\* Mutant of erase_by_id: the validity_id of the erased slot is not incremented.
erase_by_id_nobump(self, id) == erase_variant(self, id, FALSE, TRUE, TRUE)

\* Mutant of erase_by_id: the indirection table is not updated for the moved object.
erase_by_id_noindex(self, id) == erase_variant(self, id, TRUE, FALSE, TRUE)

\* Mutant of erase_by_id: the dense storage is not shrunk.
erase_by_id_nopop(self, id) == erase_variant(self, id, TRUE, TRUE, FALSE)

\* Vector::erase_by_id, statement by statement: a panic leaves the store as
\* the statements before it made it.
erase_by_id(self, id) ==
    IF id \notin InRange(self.indices) THEN Failed(self)
    ELSE IF Len(self.data) = 0 THEN Failed(self)
    ELSE
    LET data_id == At(self.indices, id)
        last_data_id == Len(self.data) - 1
    IN  IF last_data_id \notin InRange(self.metadata) THEN Failed(self)
        ELSE
        LET last_id == At(self.metadata, last_data_id).reverse_id
        IN  IF data_id \notin InRange(self.metadata) THEN Failed(self)
            ELSE
            LET s1 == [self EXCEPT !.metadata = BumpAt(@, data_id)]
            IN  IF data_id \notin InRange(s1.data) THEN Failed(s1)
                ELSE
                LET s2 == [s1 EXCEPT !.data = Swap(@, data_id, last_data_id),
                                     !.metadata = Swap(@, data_id, last_data_id)]
                IN  IF last_id \notin InRange(s2.indices) THEN Failed(s2)
                    ELSE Done([s2 EXCEPT !.indices = Swap(@, id, last_id),
                                         !.data = Pop(@)],
                              id)

\* Mutant of erase_by_data: the dense position is taken for a logical ID.
erase_by_data_asid(self, index) == erase_by_id(self, index)

\* Vector::erase_by_data
erase_by_data(self, index) ==
    IF index \notin InRange(self.metadata)
    THEN Failed(self)
    ELSE erase_by_id(self, At(self.metadata, index).reverse_id)

\* Mutant of erase_by_handle: the handle's validity_id is compared with the
\* slot's before erasing, and a stale handle erases nothing.
erase_by_handle_checked(self, handle) ==
    IF /\ handle.id \in InRange(self.indices)
       /\ At(self.indices, handle.id) \in InRange(self.metadata)
       /\ handle.validity_id
              # At(self.metadata, At(self.indices, handle.id)).validity_id
    THEN Done(self, handle.id)
    ELSE erase_by_id(self, handle.id)

\* Vector::erase_by_handle
erase_by_handle(self, handle) == erase_by_id(self, get_id(handle))

\* Mutant of create_handle: the dense position is not compared with the live
\* length, so a freed ID gets a handle.
create_handle_nocheck(self, id) ==
    IF id >= Len(self.indices) THEN None
    ELSE LET data_index == get_data_index(self, id)
         IN  IF data_index \notin InRange(self.metadata) THEN Panic
             ELSE Some(Handle_new(id, At(self.metadata, data_index).validity_id))

\* Vector::create_handle
create_handle(self, id) ==
    IF id >= Len(self.indices) THEN None
    ELSE LET data_index == get_data_index(self, id)
         IN  IF data_index >= Len(self.data) THEN None
             ELSE IF data_index \notin InRange(self.metadata) THEN Panic
             ELSE Some(Handle_new(id, At(self.metadata, data_index).validity_id))

\* Vector::create_handle_from_data
create_handle_from_data(self, index) ==
    IF index >= Len(self.data) THEN None
    ELSE IF index \notin InRange(self.metadata) THEN Panic
    ELSE Some(Handle_new(At(self.metadata, index).reverse_id,
                         At(self.metadata, index).validity_id))

\* Vector::is_valid
is_valid(self, id, validity_id) ==
    IF id \notin InRange(self.indices) THEN Panic
    ELSE IF At(self.indices, id) \notin InRange(self.metadata) THEN Panic
    ELSE Some(validity_id = At(self.metadata, At(self.indices, id)).validity_id)

\* Vector::get_validity_id
get_validity_id(self, id) ==
    At(self.metadata, At(self.indices, id)).validity_id

\* Mutant of get_next_id: the free slots are not looked at.
get_next_id_len(self) == Len(self.data)

\* Vector::get_next_id
get_next_id(self) ==
    IF Len(self.metadata) > Len(self.data)
    THEN At(self.metadata, Len(self.data)).reverse_id
    ELSE Len(self.data)

\* Mutant of clear: the validity_ids are left as they are.
clear_nobump(self) == [self EXCEPT !.data = <<>>]

\* Vector::clear
clear(self) ==
    [self EXCEPT !.data = <<>>,
                 !.metadata = [i \in DOMAIN self.metadata |->
                                  Metadata_new(self.metadata[i].reverse_id,
                                               self.metadata[i].validity_id + 1)]]

\* Index<usize> / IndexMut<usize> for Vector: vec[index], index a logical ID
Index_index(self, id) ==
    IF id \notin InRange(self.indices) THEN Panic
    ELSE LET data_index == At(self.indices, id)
         IN  IF data_index \notin InRange(self.data) THEN Panic
             ELSE Some(At(self.data, data_index))

\* Vector::is_valid_id
is_valid_id(self, id) == id < Len(self.indices)

\* Vector::get
get(self, handle) ==
    IF handle.id >= Len(self.indices) THEN None
    ELSE LET data_index == At(self.indices, handle.id)
         IN  IF data_index \notin InRange(self.metadata) THEN Panic
             ELSE IF handle.validity_id # At(self.metadata, data_index).validity_id
                  THEN None
                  ELSE IF data_index \notin InRange(self.data) THEN Panic
                  ELSE Some(At(self.data, data_index))

\* Vector::get_mut: the same lookup as get; the caller writes through the
\* reference it returns.
get_mut(self, handle) ==
    IF handle.id >= Len(self.indices) THEN None
    ELSE LET data_index == At(self.indices, handle.id)
         IN  IF data_index \notin InRange(self.metadata) THEN Panic
             ELSE IF handle.validity_id # At(self.metadata, data_index).validity_id
                  THEN None
                  ELSE IF data_index \notin InRange(self.data) THEN Panic
                  ELSE Some(data_index)

\* ------------------------------------------------------------- history
\* The handle value of an issued handle (without the object it was issued for).
H(x) == Handle_new(x.id, x.validity_id)

\* Every handle value a caller can build with Handle::new within the bounds.
AllHandles == {Handle_new(i, g) : i \in 0 .. MaxIds, g \in 0 .. (MaxGen + 1)}

\* The logical IDs of the live objects.
LiveIds == DOMAIN objs

\* The live objects.
LiveObjs == {objs[i] : i \in LiveIds}

\* The objects a caller inserts are all distinct: the n-th insertion stores
\* the object n (the generic T of Vector<T>).
NewObjects == {pushes + 1}

Restrict(f, S) == [x \in S |-> f[x]]

\* A free ID leaves the batch it was freed in; empty batches disappear.
RECURSIVE Unfree(_, _)
Unfree(batches, id) ==
    IF batches = <<>> THEN <<>>
    ELSE LET b == Head(batches) \ {id}
         IN  IF b = {} THEN Unfree(Tail(batches), id)
             ELSE <<b>> \o Unfree(Tail(batches), id)

\* The free IDs, whatever their batch.
FreeIds == UNION {freed[k] : k \in DOMAIN freed}

\* No validity_id above the cap: the counter does not wrap.
GenOk(self) ==
    \A i \in DOMAIN self.metadata : self.metadata[i].validity_id <= MaxGen

\* A mutating call and the logical ID it took or returned (-1: none).
Op(op, id) == [op |-> op, id |-> id]

\* The call returned normally and left a store within the bounds.
Within(r) ==
    /\ ~r.panic
    /\ Len(r.self.indices) <= MaxIds
    /\ GenOk(r.self)

Store(self) ==
    /\ data' = self.data
    /\ metadata' = self.metadata
    /\ indices' = self.indices

\* No clear() yet, or an erasure since the last one.
NoRun == [run |-> FALSE, n |-> 0, order |-> <<>>]

\* ------------------------------------------------------------- actions
Init ==
    /\ data = Vector_default.data
    /\ metadata = Vector_default.metadata
    /\ indices = Vector_default.indices
    /\ handles = {}
    /\ objs = <<>>
    /\ freed = <<>>
    /\ erased = {}
    /\ cleared = {}
    /\ pushes = 0
    /\ erases = 0
    /\ swept = 0
    /\ reissue = NoRun
    /\ last = Op("default", -1)

\* vec.push(object)
Push(object) ==
    LET r == push(Self, object)
    IN  /\ pushes < MaxPush
        /\ Within(r)
        /\ Store(r.self)
        /\ objs' = [i \in LiveIds \cup {r.ret} |->
                       IF i = r.ret THEN object ELSE objs[i]]
        /\ freed' = Unfree(freed, r.ret)
        /\ pushes' = pushes + 1
        /\ reissue' = IF reissue.run
                       THEN [reissue EXCEPT !.n = @ + 1]
                       ELSE reissue
        /\ last' = Op("push", r.ret)
        /\ UNCHANGED <<handles, erased, cleared, erases, swept>>

\* The logical ID under which the live object obj is stored (-1: none).
IdOf(obj) ==
    IF \E i \in LiveIds : objs[i] = obj
    THEN CHOOSE i \in LiveIds : objs[i] = obj
    ELSE -1

\* A completed erasure r, asked to remove the object stored under id.
Erasure(r, id) ==
    /\ Within(r)
    /\ Store(r.self)
    /\ objs' = Restrict(objs, LiveIds \ {id})
    /\ freed' = Append(Unfree(freed, id), {id})
    /\ erases' = erases + 1
    /\ reissue' = NoRun
    /\ UNCHANGED <<handles, cleared, pushes, swept>>

\* vec.erase_by_id(id)
EraseById(id) ==
    LET r == erase_by_id(Self, id)
    IN  /\ Erasure(r, id)
        /\ last' = Op("erase_by_id", id)
        /\ UNCHANGED erased

\* vec.erase_by_data(index): asked to remove the object at dense position index
EraseByData(index) ==
    LET r == erase_by_data(Self, index)
    IN  /\ index < Len(data)
        /\ Erasure(r, IdOf(At(data, index)))
        /\ last' = Op("erase_by_data", IdOf(At(data, index)))
        /\ UNCHANGED erased

\* vec.erase_by_handle(&h), h a handle the caller keeps, stale or not
EraseByHandle(x) ==
    LET r == erase_by_handle(Self, H(x))
    IN  /\ Erasure(r, get_id(H(x)))
        /\ erased' = IF x.obj \in LiveObjs THEN erased \cup {x} ELSE erased
        /\ last' = Op("erase_by_handle", get_id(H(x)))

\* The caller keeps the handle it was given, as long as it keeps few.
Keep(res, obj) ==
    LET x == [id |-> res.val.id, validity_id |-> res.val.validity_id, obj |-> obj]
    IN  /\ Cardinality(handles) < MaxHandles
        /\ x \notin handles
        /\ handles' = handles \cup {x}

\* The object stored under id (0: none).
ObjOf(id) == IF id \in LiveIds THEN objs[id] ELSE 0

\* let h = vec.create_handle(id).unwrap()
CreateHandle(id) ==
    LET res == create_handle(Self, id)
    IN  /\ res.tag = "Some"
        /\ Keep(res, ObjOf(id))
        /\ UNCHANGED <<data, metadata, indices, objs, freed, erased, cleared,
                       pushes, erases, swept, reissue, last>>

\* let h = vec.create_handle_from_data(index).unwrap()
CreateHandleFromData(index) ==
    LET res == create_handle_from_data(Self, index)
    IN  /\ res.tag = "Some"
        /\ Keep(res, ObjOf(res.val.id))
        /\ UNCHANGED <<data, metadata, indices, objs, freed, erased, cleared,
                       pushes, erases, swept, reissue, last>>

\* vec.clear()
Clear ==
    LET self == clear(Self)
    IN  /\ GenOk(self)
        /\ Store(self)
        /\ objs' = <<>>
        /\ freed' = IF LiveIds = {} THEN freed ELSE Append(freed, LiveIds)
        /\ cleared' = cleared \cup handles
        /\ swept' = swept + Len(data)
        /\ reissue' = [run |-> TRUE, n |-> 0,
                        order |-> [k \in DOMAIN data |-> IdOf(data[k])]]
        /\ last' = Op("clear", -1)
        /\ UNCHANGED <<handles, erased, pushes, erases>>

Next ==
    \/ \E object \in NewObjects : Push(object)
    \/ \E id \in 0 .. MaxIds : EraseById(id)
    \/ \E index \in 0 .. MaxIds : EraseByData(index)
    \/ \E x \in handles : EraseByHandle(x)
    \/ \E id \in 0 .. MaxIds : CreateHandle(id)
    \/ \E index \in 0 .. MaxIds : CreateHandleFromData(index)
    \/ Clear

Spec == Init /\ [][Next]_vars

\* An erase_by_* call that panicked in erase_by_id, reached with a logical
\* ID that last records (-1: none), the panic caught by the caller (catch_unwind) or
\* the store looked at while unwinding: the store is as the statements before
\* the panic left it, and nothing was inserted or erased.
Panicked(r) ==
    /\ r.panic
    /\ GenOk(r.self)
    /\ Store(r.self)
    /\ UNCHANGED <<handles, objs, freed, erased, cleared, pushes, erases, swept,
                   reissue>>

\* vec.erase_by_id(id) on an id that is out of range or not live
EraseByIdPanics(id) ==
    /\ Panicked(erase_by_id(Self, id))
    /\ last' = Op("panicked", id)

\* vec.erase_by_data(index) on an index that is no live dense position
EraseByDataPanics(index) ==
    /\ Panicked(erase_by_data(Self, index))
    /\ last' = Op("panicked",
                   IF index \in InRange(metadata)
                   THEN At(metadata, index).reverse_id ELSE -1)

\* vec.erase_by_handle(&h) on a handle, of whatever origin, whose ID is not live
EraseByHandlePanics(h) ==
    /\ Panicked(erase_by_handle(Self, h))
    /\ last' = Op("panicked", get_id(h))

\* The store used against its contract too: insertions, erasures and clears
\* mixed with erasures of what is not live (no handle is kept here).
NextMisuse ==
    \/ \E object \in NewObjects : Push(object)
    \/ \E id \in 0 .. MaxIds : EraseById(id)
    \/ \E index \in 0 .. MaxIds : EraseByData(index)
    \/ Clear
    \/ \E id \in 0 .. MaxIds : EraseByIdPanics(id)
    \/ \E index \in 0 .. MaxIds : EraseByDataPanics(index)
    \/ \E id \in 0 .. MaxIds : EraseByHandlePanics(Handle_new(id, 0))

SpecMisuse == Init /\ [][NextMisuse]_vars

\* The store a step leaves.
SelfNext == [data |-> data', metadata |-> metadata', indices |-> indices']

\* ------------------------------------------------------------- claims
EraseOps == {"erase_by_id", "erase_by_data", "erase_by_handle"}

\* The object of the last insertion.
LastPushed == pushes

\* C1: once erase_by_handle(h) has erased the object h refers to (h valid at
\* that moment), get(h) is absent in every later state, whatever pushes,
\* erases and clears follow, the reuse of h's logical ID included.
C1_ErasedHandleStaysAbsent ==
    \A x \in erased : get(Self, H(x)) = None

\* C1 witness: a handle erased through erase_by_handle whose logical ID is
\* live again; get on it is absent while the ID's current handle resolves.
C1_Witness ==
    \E x \in erased :
        /\ x.id \in LiveIds
        /\ get(Self, H(x)) = None
        /\ get(Self, Handle_new(x.id, get_validity_id(Self, x.id))).tag = "Some"

\* C2: erasing a live object A (by id, dense position or handle) leaves
\* every handle to every other live object valid: get returns the same
\* value after the erase as before it.
C2_EraseKeepsOtherHandles ==
    [][\A x \in handles :
          (last'.op \in EraseOps /\ erases' = erases + 1
              /\ x.obj \in LiveObjs /\ x.obj \in LiveObjs')
          => /\ get(Self, H(x)) = Some(x.obj)
             /\ get(Self, H(x))' = get(Self, H(x))]_vars

\* C2 witness: of objects that all sat at the dense position of their ID,
\* the one of id 0 was erased; the previously-last object now sits in dense
\* position 0 and its handle still reads it.
C2_Witness ==
    /\ last.op \in EraseOps
    /\ last.id = 0
    /\ pushes = Len(indices)
    /\ erases = 1
    /\ swept = 0
    /\ \E x \in handles :
          /\ x.id = Len(indices) - 1
          /\ x.id > 0
          /\ At(indices, x.id) = 0
          /\ x.obj \in LiveObjs
          /\ get(Self, H(x)) = Some(x.obj)

\* C3: when a push reuses a freed logical ID, the handle created for the new
\* object has a generation different from that of every handle issued before
\* for that ID: get(old) is absent and get(new) is the pushed value.
C3_ReuseChangesGeneration ==
    last.op = "push" =>
        LET new == create_handle(Self, last.id)
        IN  /\ new.tag = "Some"
            /\ get(Self, new.val) = Some(LastPushed)
            /\ \A x \in handles :
                  (x.id = last.id /\ x.obj # LastPushed) =>
                      /\ x.validity_id # new.val.validity_id
                      /\ get(Self, H(x)) = None

\* C3 witness: a push has just reused an ID for which a handle was issued.
C3_Witness ==
    /\ last.op = "push"
    /\ \E x \in handles :
          /\ x.id = last.id
          /\ x.obj # LastPushed
          /\ get(Self, H(x)) = None

\* After a push: the handle created for the returned ID reads the pushed value.
PushedReads ==
    LET c == create_handle(Self, last.id)
    IN  /\ c.tag = "Some"
        /\ get_id(c.val) = last.id
        /\ get(Self, c.val) = Some(LastPushed)

\* C4: the ID push returns differs from the ID of every object live at that
\* moment, and get on create_handle(id) right after returns the pushed value.
C4_PushIdFreshAndReadable ==
    [][pushes' = pushes + 1 =>
          /\ last'.id \notin LiveIds
          /\ PushedReads']_vars

\* C4 witness: a push among other live objects, after an erasure and a clear.
C4_Witness ==
    /\ last.op = "push"
    /\ erases > 0
    /\ swept > 0
    /\ Len(data) >= 2
    /\ PushedReads

\* C5: after clear() len() is 0, and get is absent for every handle created
\* before the clear, at once and after later pushes that reuse the IDs.
C5_ClearInvalidatesHandles ==
    /\ last.op = "clear" => (len(Self) = 0 /\ is_empty(Self))
    /\ \A x \in cleared : get(Self, H(x)) = None

\* C5 witness: a handle issued for an object that a clear removed, whose ID
\* a later push has reused.
C5_Witness ==
    \E x \in cleared \ erased :
        /\ last.op = "push"
        /\ last.id = x.id
        /\ x.obj \notin LiveObjs
        /\ get(Self, H(x)) = None

\* C6: for every handle value whatsoever, get and get_mut either return
\* absent or a reference to a live object; they never panic.
C6_GetNeverPanics ==
    \A h \in AllHandles :
        /\ get(Self, h).tag # "Panic"
        /\ get_mut(Self, h).tag # "Panic"
        /\ get(Self, h).tag = "Some" =>
              (h.id \in LiveIds /\ get(Self, h).val = objs[h.id])

\* C7: create_handle(id) is absent exactly when id is out of range or freed;
\* for a live id it is the handle of id and the slot's current generation,
\* and get on it returns the object stored under id.
C7_CreateHandleExact ==
    \A id \in 0 .. (MaxIds + 1) :
        IF id \in LiveIds
        THEN /\ create_handle(Self, id)
                    = Some(Handle_new(id, get_validity_id(Self, id)))
             /\ get(Self, create_handle(Self, id).val) = Some(objs[id])
        ELSE create_handle(Self, id) = None

\* C7 witness: a freed ID in range, for which create_handle is absent, beside
\* a live ID whose handle create_handle returned.
C7_Witness ==
    /\ \E id \in FreeIds : id < Len(indices) /\ create_handle(Self, id) = None
    /\ \E x \in handles :
          x.obj \in LiveObjs /\ create_handle(Self, x.id) = Some(H(x))

\* C8: push returns a freed ID whenever one exists, the most recently freed
\* of those free; with no freed ID it allocates the ID len() before the push.
C8_ReuseIsLifo ==
    [][pushes' = pushes + 1 =>
          IF freed # <<>>
          THEN last'.id \in freed[Len(freed)]
          ELSE last'.id = len(Self) /\ last'.id = Len(indices)]_vars

\* C8 witness: a push took a freed ID while an older freed ID stays free.
C8_Witness ==
    /\ last.op = "push"
    /\ freed # <<>>
    /\ last.id < Len(indices) - 1
    /\ erases >= 2

\* C9: get_next_id() (a pure function of the store) returns the ID that a
\* push performed immediately afterwards returns.
C9_NextIdIsPushId ==
    [][pushes' = pushes + 1 => last'.id = get_next_id(Self)]_vars

\* C9 witness: a push returned a freed ID that was not the live count.
C9_Witness ==
    /\ last.op = "push"
    /\ last.id # len(Self) - 1
    /\ erases > 0

\* C10 as stated: len() is insertions minus erasures in every state.
C10_LenIsPushesMinusErases ==
    len(Self) = pushes - erases

\* C10, amended: len() is insertions minus erasures minus the objects that
\* clear() removed.
C10_LenCountsClear ==
    len(Self) = pushes - erases - swept

\* C10 witness: objects remain after insertions, erasures and a clear.
C10_Witness ==
    /\ swept > 0
    /\ erases > 0
    /\ len(Self) > 0

\* C11: erase_by_handle(h) has exactly the effect of erase_by_id(h.id) and
\* ignores h.validity_id: through a stale h whose ID a live object y has
\* reused it removes y (len one less, the valid handle to y becomes absent).
C11_EraseByHandleIgnoresValidity ==
    [][\A x \in handles :
          (last'.op = "erase_by_handle" /\ last'.id = x.id
              /\ erases' = erases + 1)
          => LET y == create_handle(Self, x.id)
             IN  /\ SelfNext = erase_by_id(Self, x.id).self
                 /\ Len(data') = Len(data) - 1
                 /\ y.tag = "Some"
                 /\ get(Self, y.val) = Some(ObjOf(x.id))
                 /\ get(SelfNext, y.val) = None]_vars

\* C11 witness: erase_by_handle through a stale handle x has removed the
\* object y that had reused x's ID; the handle to y, valid before, is absent.
C11_Witness ==
    /\ last.op = "erase_by_handle"
    /\ \E x \in handles, y \in handles :
          /\ x.id = last.id
          /\ y.id = last.id
          /\ x.obj < y.obj
          /\ x \notin erased
          /\ y \notin erased
          /\ y.obj = LastPushed
          /\ get(Self, H(y)) = None

\* C12: erase_by_id, erase_by_handle, erase_by_data and the index operators
\* panic on a logical ID that is out of range or freed and on a dense index
\* that is no live position; none returns normally, removes a live object
\* or yields a live object's value.
C12_MisuseFailsFast ==
    /\ \A id \in (0 .. (MaxIds + 1)) \ LiveIds :
          LET r == erase_by_id(Self, id)
          IN  /\ r.panic
              /\ r.self.data = data
              /\ r.self.indices = indices
              /\ \A g \in 0 .. MaxGen :
                    erase_by_handle(Self, Handle_new(id, g)).panic
              /\ Index_index(Self, id) = Panic
    /\ \A i \in Len(data) .. (MaxIds + 1) :
          LET r == erase_by_data(Self, i)
          IN  /\ r.panic
              /\ r.self.data = data
              /\ r.self.indices = indices

\* C12 witness: an erasure has panicked on a freed ID beside live objects,
\* and indexing by that ID panics too.
C12_Witness ==
    /\ last.op = "panicked"
    /\ last.id \in FreeIds
    /\ Len(data) > 0
    /\ Index_index(Self, last.id) = Panic

\* C13 as stated: the pushes that follow a clear(), with no erase in
\* between, return the IDs 0, 1, 2, ... in that order.
C13_ReissueFromZero ==
    (last.op = "push" /\ reissue.run) => last.id = reissue.n - 1

\* C13, amended: those pushes first return the IDs of the objects the clear
\* removed, in the order of the dense positions the objects had; they are
\* 0, 1, 2, ... when no erasure was completed before the clear.
C13_ReissueInDenseOrder ==
    (last.op = "push" /\ reissue.run) =>
        /\ reissue.n <= Len(reissue.order) => last.id = reissue.order[reissue.n]
        /\ erases = 0 => last.id = reissue.n - 1

\* C13 witness: the first push after a clear returned the ID of the object
\* that was at dense position 0, which is not the ID 0.
C13_Witness ==
    /\ last.op = "push"
    /\ reissue.run
    /\ reissue.n = 1
    /\ Len(reissue.order) >= 1
    /\ last.id = reissue.order[1]
    /\ last.id # 0

\* C14: is_valid(id, validity_id) returns true exactly when get on the handle
\* (id, validity_id) returns an object and false exactly when it returns
\* absent, for every pair.
C14_IsValidIsGetCheck ==
    \A h \in AllHandles :
        /\ get(Self, h).tag = "Some" <=> is_valid(Self, h.id, h.validity_id) = Some(TRUE)
        /\ get(Self, h) = None <=> is_valid(Self, h.id, h.validity_id) = Some(FALSE)

\* C15: for every logical ID in range of the indirection table, indices[id]
\* is a valid index into dense storage if and only if id is live; the stale
\* entry of a freed ID points at or beyond the live boundary.
C15_IndexValidIffLive ==
    \A id \in InRange(indices) :
        /\ At(indices, id) < len(Self) <=> id \in LiveIds
        /\ id \in FreeIds => At(indices, id) >= len(Self)

\* C15 witness: a freed ID whose stale entry is beyond the live boundary,
\* beside live IDs.
C15_Witness ==
    /\ LiveIds # {}
    /\ \E id \in FreeIds : id \in InRange(indices) /\ At(indices, id) > len(Self)

\* C16: for every live logical ID id, metadata[indices[id]].reverse_id = id.
C16_ReverseIdIsInverse ==
    \A id \in LiveIds :
        /\ id \in InRange(indices)
        /\ At(indices, id) \in InRange(metadata)
        /\ At(metadata, At(indices, id)).reverse_id = id

\* C16 witness: a live object that an erasure moved, away from the dense
\* position equal to its ID.
C16_Witness ==
    /\ last.op \in EraseOps
    /\ \E id \in LiveIds :
          /\ At(indices, id) # id
          /\ At(metadata, At(indices, id)).reverse_id = id

\* The reverse_ids of the metadata entries beyond the live boundary.
Surplus == [k \in (Len(data) + 1) .. Len(metadata) |-> metadata[k].reverse_id]

\* C17: the metadata table is at least as long as dense storage, the surplus
\* is the number of free logical IDs, and each free ID is the reverse_id of
\* exactly one entry beyond the live boundary.
C17_SurplusIsFreeList ==
    /\ Len(metadata) >= Len(data)
    /\ Len(metadata) - Len(data) = Cardinality(FreeIds)
    /\ \A id \in FreeIds :
          Cardinality({k \in DOMAIN Surplus : Surplus[k] = id}) = 1
    /\ FreeIds = InRange(indices) \ LiveIds

\* C17 witness: two free IDs, from an erasure and from a clear, with a live
\* object.
C17_Witness ==
    /\ Cardinality(FreeIds) >= 2
    /\ Len(freed) >= 2
    /\ swept > 0
    /\ erases > 0
    /\ Len(data) > 0

\* C18: the generation recorded for a logical ID never decreases across an
\* operation and strictly increases whenever its slot is vacated (by an
\* erasure of the ID or by clear), so a generation under which the ID was
\* live (the one of a handle issued then) is never its current one again.
C18_GenerationMonotonic ==
    [][/\ \A id \in InRange(indices) :
             /\ get_validity_id(SelfNext, id) >= get_validity_id(Self, id)
             /\ (id \in LiveIds /\ id \notin LiveIds')
                   => get_validity_id(SelfNext, id) > get_validity_id(Self, id)
       /\ \A x \in handles' :
             x.obj \notin LiveObjs'
                 => get_validity_id(SelfNext, x.id) > x.validity_id]_vars

\* C18 witness: a clear has vacated slots after an erasure, and the ID of a
\* handle issued before has a greater generation than the handle.
C18_Witness ==
    /\ last.op = "clear"
    /\ erases > 0
    /\ swept > 0
    /\ \E x \in cleared :
          /\ x.id \in FreeIds
          /\ get_validity_id(Self, x.id) > x.validity_id

\* C19: erase_by_data(i) on a live dense position i does what
\* erase_by_id(metadata[i].reverse_id) does: the object that was at position i
\* is gone, the object that was last is at position i (when i was not last),
\* every other position below the new length keeps its object, and the
\* length is one less.
C19_EraseByDataIsSwapRemove ==
    [][(last'.op = "erase_by_data" /\ erases' = erases + 1) =>
         \E i \in InRange(data) :
            /\ IdOf(At(data, i)) = last'.id
            /\ At(metadata, i).reverse_id = last'.id
            /\ LET r == erase_by_id(Self, At(metadata, i).reverse_id)
               IN  ~r.panic /\ r.self = SelfNext
            /\ Len(data') = Len(data) - 1
            /\ \A j \in InRange(data') : At(data', j) # At(data, i)
            /\ i < Len(data) - 1 => At(data', i) = At(data, Len(data) - 1)
            /\ \A j \in InRange(data') \ {i} : At(data', j) = At(data, j)]_vars

\* C19 witness: erase_by_data has just removed an object that was not last,
\* so that a live object sits at a dense position below the one its ID was
\* first stored at.
C19_Witness ==
    /\ last.op = "erase_by_data"
    /\ last.id \in FreeIds
    /\ At(indices, last.id) = Len(data)
    /\ Len(data) >= 2
    /\ \E id \in LiveIds : At(indices, id) < id

\* C20: a mutating call that fails has applied no part of its update: data,
\* metadata and indices are as they were before the call.
C20_FailureLeavesStoreUntouched ==
    [][last'.op = "panicked" => SelfNext = Self]_vars

\* C21: for every handle the store has issued (returned by create_handle or
\* create_handle_from_data in an earlier state), get and get_mut never index
\* dense storage out of bounds: whenever the handle's generation is the
\* current generation of its ID, the ID is live and indices[id] < len(); the
\* current generation of a freed ID is never one a handle was issued under.
C21_IssuedHandlesStayInBounds ==
    \A x \in handles :
        /\ get(Self, H(x)).tag # "Panic"
        /\ get_mut(Self, H(x)).tag # "Panic"
        /\ x.id \in InRange(indices)
        /\ At(indices, x.id) \in InRange(metadata)
        /\ x.validity_id = get_validity_id(Self, x.id)
              => (x.id \in LiveIds /\ At(indices, x.id) < len(Self))
        /\ x.id \in FreeIds => x.validity_id # get_validity_id(Self, x.id)

\* C21 witness: of the handles the caller keeps, one is for an ID that has
\* been freed since and whose slot lies beyond the live boundary, where get
\* returns absent, and one still reads its object.
C21_Witness ==
    /\ \E x \in handles :
          /\ x.id \in FreeIds
          /\ At(indices, x.id) >= len(Self)
          /\ get(Self, H(x)) = None
    /\ \E y \in handles : get(Self, H(y)) = Some(y.obj)

====
